---- MODULE Spec2Model ----
(***************************************************************************)
(* Model of ghl_dashboard_real.py, a Streamlit dashboard.                  *)
(*                                                                         *)
(* Streamlit re-executes the whole script on every interaction, so one     *)
(* script run (header, cached load, page dispatch, page render, footer)    *)
(* is one action, Rerun.  The only state that survives a run is the        *)
(* selectbox value, the process-wide st.cache_data entry and the state of  *)
(* numpy's global random generator.                                        *)
(*                                                                         *)
(* Numbers: every real number x of the source is held as the integer       *)
(* x * 1000 (0.148 is 148, 66.7 is 66700, 60.01 is 60010); integer counts  *)
(* (contacts, events, reservations, days, hours) are held as they are.     *)
(* Text: Python strings are TLA+ strings; the emoji that prefix the        *)
(* source's labels are left out, the rest of each literal is kept.         *)
(***************************************************************************)
EXTENDS Integers, Sequences, FiniteSets, TLC

VARIABLES page, started, cache, bodyRan, callAge, loaded, snapshot, calls,
          screen, prev, rng

vars == <<page, started, cache, bodyRan, callAge, loaded, snapshot, calls,
          screen, prev, rng>>

(* ------------------------------ bounds -------------------------------- *)

\* number of states of the model of numpy's global generator
RngMod == 16
\* seconds that pass in one Elapse step
Step == 600

(* ------------------------- program constants -------------------------- *)

\* @st.cache_data(ttl=1800)
ttl == 1800

(* --------------------------- small helpers ---------------------------- *)

Range(s) == {s[i] : i \in DOMAIN s}

RECURSIVE SumSeq(_)
SumSeq(s) == IF s = <<>> THEN 0 ELSE Head(s) + SumSeq(Tail(s))

\* Python's max() over a non-empty list of numbers
max(s) == CHOOSE m \in Range(s) : \A x \in Range(s) : x <= m

\* dict.keys() / dict.values() of a dict held as a sequence of [k, v] items
\* in insertion order
keys(d) == [i \in DOMAIN d |-> d[i].k]
values(d) == [i \in DOMAIN d |-> d[i].v]

\* substring test, Python's `sub in s`
Contains(s, sub) ==
    \E i \in 1..(Len(s) - Len(sub) + 1) : SubSeq(s, i, i + Len(sub) - 1) = sub

(* ---------------------------- formatting ------------------------------ *)

\* three digits, zero padded: the groups after the first of f"{n:,}"
Pad3(n) ==
    IF n < 10 THEN "00" \o ToString(n)
    ELSE IF n < 100 THEN "0" \o ToString(n)
    ELSE ToString(n)

\* f"{n:,}" of a non-negative integer
RECURSIVE FormatThousands(_)
FormatThousands(n) ==
    IF n < 1000 THEN ToString(n)
    ELSE FormatThousands(n \div 1000) \o "," \o Pad3(n % 1000)

\* the mutant of FormatPct1: f"{x:.0%}", no decimal place
FormatPct0(x) == ToString((x + 5) \div 10) \o "%"

\* f"{x:.1%}" of a rate x in [0, 1] given as x * 1000: the percentage with
\* one decimal place.  x * 1000 is the percentage in tenths, so no rounding
\* is left to do.
FormatPct1(x) == ToString(x \div 10) \o "." \o ToString(x % 10) \o "%"

\* f"{x:.0f}" of a non-negative x given as x * 1000: round half to even
FormatFixed0(x) ==
    LET q == x \div 1000
        r == x % 1000
    IN  ToString(IF r > 500 \/ (r = 500 /\ q % 2 = 1) THEN q + 1 ELSE q)

(* -------------------- the snapshot, load_real_ghl_data ---------------- *)

contacts_data ==
    [ total_contacts      |-> 9599,
      contacts_with_email |-> 1425,
      contacts_with_phone |-> 1477,
      email_rate          |-> 148,
      phone_rate          |-> 154,
      avg_completeness    |-> 321,
      segmentation        |-> << [k |-> "Establecido", v |-> 459],
                                 [k |-> "Reciente",    v |-> 324],
                                 [k |-> "Nuevo",       v |-> 123],
                                 [k |-> "Muy_Nuevo",   v |-> 65],
                                 [k |-> "Antiguo",     v |-> 29] >> ]

events_data ==
    [ total_events        |-> 1034,
      avg_duration        |-> 60010,
      business_hours_rate |-> 777,
      weekend_rate        |-> 67,
      status_distribution |-> << [k |-> "Confirmada", v |-> 769],
                                 [k |-> "Cancelada",  v |-> 93],
                                 [k |-> "noshow",     v |-> 83],
                                 [k |-> "showed",     v |-> 55] >> ]

attendance_by_day ==
    [ mejor_dia  |-> 2,
      mejor_tasa |-> 667,
      peor_dia   |-> 16,
      peor_tasa  |-> 0,
      inicio_mes |-> 260,
      medio_mes  |-> 215,
      final_mes  |-> 193 ]

lead_time_analysis ==
    [ optimal_window |-> "1-2_Semanas",
      optimal_rate   |-> 101,
      same_day_rate  |-> 33,
      correlation    |-> 29 ]

\* the mutant of booking_patterns: a peak hour that is not the busiest hour
booking_patterns_stale_peak ==
    [ peak_hour  |-> 17,
      peak_day   |-> "Wednesday",
      peak_month |-> "July",
      hour_distribution    |-> << [k |-> 16, v |-> 78], [k |-> 19, v |-> 78],
                                  [k |-> 17, v |-> 74], [k |-> 21, v |-> 68],
                                  [k |-> 14, v |-> 65] >>,
      monthly_distribution |-> << [k |-> "July",   v |-> 172],
                                  [k |-> "August", v |-> 147],
                                  [k |-> "April",  v |-> 135] >> ]

booking_patterns ==
    [ peak_hour  |-> 16,
      peak_day   |-> "Wednesday",
      peak_month |-> "July",
      hour_distribution    |-> << [k |-> 16, v |-> 78], [k |-> 19, v |-> 78],
                                  [k |-> 17, v |-> 74], [k |-> 21, v |-> 68],
                                  [k |-> 14, v |-> 65] >>,
      monthly_distribution |-> << [k |-> "July",   v |-> 172],
                                  [k |-> "August", v |-> 147],
                                  [k |-> "April",  v |-> 135] >> ]

business_answers ==
    [ attendance_by_day  |-> attendance_by_day,
      lead_time_analysis |-> lead_time_analysis,
      booking_patterns   |-> booking_patterns ]

\* the body of load_real_ghl_data: the triple it returns
load_real_ghl_data == <<contacts_data, events_data, business_answers>>

(* ------------------------- st.cache_data(ttl) ------------------------- *)

\* cache is <<>> when the process holds no entry (cold start), else one
\* entry <<[value, age]>>, age being the seconds since it was stored.

\* the mutant of CacheHit: the entry never expires
CacheHitNoExpiry(c) == c # <<>>

\* the decorated call returns the stored value iff an entry exists and is
\* younger than ttl
CacheHit(c) == c # <<>> /\ c[1].age < ttl

\* the decorated load_real_ghl_data(): value returned, whether the body ran,
\* and the cache afterwards
cached_load(c) ==
    IF CacheHit(c)
    THEN [value |-> c[1].value, ran |-> FALSE, cache |-> c]
    ELSE [value |-> load_real_ghl_data, ran |-> TRUE,
          cache |-> <<[value |-> load_real_ghl_data, age |-> 0]>>]

(* ------------------- numpy's global random generator ------------------ *)

\* np.random is one process-wide generator: every draw advances its state,
\* and the state is never seeded or reset by the script.  The generator is
\* modelled as a linear congruential step over 0..RngMod-1.        
NextRng(g) == (5 * g + 3) % RngMod

\* the mutant of uniform: the span taken as `high`, not `high - low`
uniform_wide(g, low, high) ==
    LET n == NextRng(g)
    IN  [rng |-> n, value |-> low * 1000 + (high * 1000 * n) \div RngMod]

\* np.random.uniform(low, high): a value of [low, high), low + (high-low)*u
\* with u in [0, 1) read off the advanced generator state
uniform(g, low, high) ==
    LET n == NextRng(g)
    IN  [rng |-> n, value |-> low * 1000 + ((high - low) * 1000 * n) \div RngMod]

(* ------------------------ show_executive_summary ---------------------- *)

\* the st.markdown card of one insight
insight_card(insight) ==
    "<div class=\"insight-card\"><h3>" \o insight.title \o "</h3>"
    \o "<h2 style=\"color: #3B82F6;\">" \o insight.value \o "</h2>"
    \o "<p><strong>Hallazgo:</strong> " \o insight.description \o "</p>"
    \o "<p><strong>Recomendación:</strong> " \o insight.recommendation
    \o "</p></div>"

insights(b) ==
    << [ title |-> "Momento Óptimo del Mes",
         value |-> "Día " \o ToString(b.attendance_by_day.mejor_dia),
         description |->
             FormatPct1(b.attendance_by_day.mejor_tasa) \o " asistencia vs "
             \o FormatPct1(b.attendance_by_day.peor_tasa) \o " en día "
             \o ToString(b.attendance_by_day.peor_dia),
         recommendation |-> "Concentrar campañas en primera quincena del mes" ],
       [ title |-> "Ventana de Reserva Ideal",
         value |-> b.lead_time_analysis.optimal_window,
         description |->
             FormatPct1(b.lead_time_analysis.optimal_rate) \o " asistencia vs "
             \o FormatPct1(b.lead_time_analysis.same_day_rate) \o " mismo día",
         recommendation |->
             "Implementar recordatorios automáticos con 1-2 semanas" ],
       [ title |-> "Patrón de Reservas Óptimo",
         value |-> b.booking_patterns.peak_day \o " "
                   \o ToString(b.booking_patterns.peak_hour) \o ":00",
         description |->
             "Hora pico con "
             \o ToString(max(values(b.booking_patterns.hour_distribution)))
             \o " reservas",
         recommendation |-> "Aumentar disponibilidad miércoles 16:00-17:00" ] >>

summary_view(c, e, b) ==
    [ page    |-> "summary",
      title   |-> "Resumen Ejecutivo",
      metrics |->
          << [label |-> "Total Contactos",
              value |-> FormatThousands(c.total_contacts)],
             [label |-> "Total Eventos",
              value |-> FormatThousands(e.total_events)],
             [label |-> "Ventana Óptima",
              value |-> b.lead_time_analysis.optimal_window],
             [label |-> "Hora Pico",
              value |-> ToString(b.booking_patterns.peak_hour) \o ":00"] >>,
      insights |-> insights(b),
      cards    |-> [i \in 1..3 |-> insight_card(insights(b)[i])] ]

\* the mutant of show_executive_summary: the page consumes the hour
\* distribution it draws from (a popitem on the dict it was handed)
show_executive_summary_popping(c, e, b) ==
    [ view |-> summary_view(c, e, b),
      args |-> <<c, e,
                 [b EXCEPT !.booking_patterns.hour_distribution = Tail(@)]>> ]

\* A Python function receives references: next to the view it renders, the
\* operator gives the argument objects as they are when it returns.
show_executive_summary(c, e, b) ==
    [ view |-> summary_view(c, e, b), args |-> <<c, e, b>> ]

(* ------------------------ show_business_questions --------------------- *)

\* the mutant of attendance_loop: the branch that pins day 16 is missing
RECURSIVE attendance_loop_unpinned(_, _, _)
attendance_loop_unpinned(day, g, acc) ==
    IF day > 31 THEN [rates |-> acc, rng |-> g]
    ELSE IF day = 2 THEN attendance_loop_unpinned(day + 1, g, Append(acc, 66700))
    ELSE LET d == IF day <= 10 THEN uniform(g, 20, 35)
                  ELSE IF day <= 20 THEN uniform(g, 15, 25)
                  ELSE uniform(g, 10, 20)
         IN  attendance_loop_unpinned(day + 1, d.rng, Append(acc, d.value))

\* `for day in days:` over days = list(range(1, 32)), from `day` on: acc is
\* attendance_rates so far, g the generator state
RECURSIVE attendance_loop(_, _, _)
attendance_loop(day, g, acc) ==
    IF day > 31 THEN [rates |-> acc, rng |-> g]
    ELSE IF day = 2 THEN attendance_loop(day + 1, g, Append(acc, 66700))
    ELSE IF day = 16 THEN attendance_loop(day + 1, g, Append(acc, 0))
    ELSE LET d == IF day <= 10 THEN uniform(g, 20, 35)
                  ELSE IF day <= 20 THEN uniform(g, 15, 25)
                  ELSE uniform(g, 10, 20)
         IN  attendance_loop(day + 1, d.rng, Append(acc, d.value))

\* the mutant of lead_times: the six labels in alphabetical order
lead_times_sorted ==
    <<"1-2_Semanas", "1-3_Días", "2-4_Semanas", "4-7_Días", "Mismo_Día",
      "Más_1_Mes">>

lead_times ==
    <<"Mismo_Día", "1-3_Días", "4-7_Días", "1-2_Semanas", "2-4_Semanas",
      "Más_1_Mes">>

attendance_by_leadtime == <<3300, 4700, 5500, 10100, 8600, 0>>

\* Chart A: the scatter over days 1..31, the vrect and the annotation
fig1(attendance_rates) ==
    [ x          |-> [i \in 1..31 |-> i],
      y          |-> attendance_rates,
      vrect      |-> [x0 |-> 1, x1 |-> 10],
      annotation |-> [x |-> 5,
                      y |-> (max(attendance_rates) * 11) \div 10,
                      text |-> "Zona Óptima<br>Inicio de Mes"],
      title      |-> "Asistencia por Día del Mes - Análisis Real" ]

\* Chart B: the line over the lead-time buckets and the star on the optimum
fig2 ==
    [ x     |-> lead_times,
      y     |-> attendance_by_leadtime,
      star  |-> [x |-> <<"1-2_Semanas">>, y |-> <<10100>>],
      title |-> "Correlación Días de Anticipación vs Asistencia - Datos Reales" ]

\* Chart C: reservations per hour, bars of 70 or more in the highlight colour
fig3(b) ==
    LET counts == values(b.booking_patterns.hour_distribution)
    IN  [ x      |-> keys(b.booking_patterns.hour_distribution),
          y      |-> counts,
          colors |-> [i \in DOMAIN counts |->
                         IF counts[i] >= 70 THEN "#F59E0B" ELSE "#6B7280"],
          title  |-> "Reservas por Hora - Datos Reales" ]

\* Chart D: reservations per month, coloured by count
fig4(b) ==
    LET month_counts == values(b.booking_patterns.monthly_distribution)
    IN  [ x            |-> keys(b.booking_patterns.monthly_distribution),
          y            |-> month_counts,
          marker_color |-> month_counts,
          title        |-> "Reservas por Mes - Datos Reales" ]

\* g is the state of np.random when the page starts to render; the page
\* takes no random source as an argument
show_business_questions(b, g) ==
    LET a == attendance_loop(1, g, <<>>)
    IN  [ view |->
            [ page    |-> "questions",
              title   |-> "Respuestas a Preguntas Críticas de Negocio",
              answers |->
                << "Día 2 del mes = 66.7% asistencia vs 0% en día 16",
                   "1-2 semanas = 10.1% vs 3.3% mismo día (correlación +0.029)",
                   "Wednesday 16:00 = 78 reservas | July = 172 reservas (mes pico)" >>,
              fig1    |-> fig1(a.rates),
              fig2    |-> fig2,
              fig3    |-> fig3(b),
              fig4    |-> fig4(b) ],
          args |-> <<b>>,
          rng  |-> a.rng ]

(* ----------------------- show_segmentation_metrics -------------------- *)

\* the mutant of percentages: the proportions taken as they are, not * 100
percentages_unscaled(segmentation) ==
    [i \in DOMAIN segmentation |-> segmentation[i].v]

\* percentages = [v*100 for v in contacts_data['segmentation'].values()]
percentages(segmentation) ==
    [i \in DOMAIN segmentation |-> segmentation[i].v * 100]

show_segmentation_metrics(c, e) ==
    [ view |->
        [ page    |-> "segmentation",
          title   |-> "Segmentación de Contactos & Métricas del Sistema",
          fig_seg |->
            [ labels |-> keys(c.segmentation),
              values |-> percentages(c.segmentation),
              hole   |-> 400,
              marker_colors |->
                  <<"#10B981", "#3B82F6", "#F59E0B", "#EF4444", "#6B7280">>,
              title  |-> "Distribución de Contactos por Antigüedad" ],
          metrics |->
            << [label |-> "Tasa de Email", value |-> FormatPct1(c.email_rate)],
               [label |-> "Tasa de Teléfono", value |-> FormatPct1(c.phone_rate)],
               [label |-> "Completitud Promedio",
                value |-> FormatPct1(c.avg_completeness)],
               [label |-> "Duración Promedio",
                value |-> FormatFixed0(e.avg_duration) \o " min"],
               [label |-> "Horario Comercial",
                value |-> FormatPct1(e.business_hours_rate)],
               [label |-> "Fin de Semana",
                value |-> FormatPct1(e.weekend_rate)] >> ],
      args |-> <<c, e>> ]

(* -------------------------------- main -------------------------------- *)

\* the options of st.sidebar.selectbox, in order; the first is the default
options == <<"Resumen Ejecutivo", "Preguntas de Negocio", "Segmentación & Métricas">>

NoView == [page |-> "none"]

\* the mutant of main: the selection is ignored, the summary always drawn
main_summary_only(p, data, g) ==
    LET r == show_executive_summary(data[1], data[2], data[3])
    IN  [calls |-> <<"show_executive_summary">>, view |-> r.view,
         snapshot |-> r.args, rng |-> g]

\* main() from the unpacking of the loaded triple on: the if/elif chain over
\* `page`.  Gives the render functions called, the view drawn, the triple as
\* it is after the call, and the generator state.
main(p, data, g) ==
    LET contacts == data[1]
        events   == data[2]
        answers  == data[3]
    IN  IF p = options[1]
        THEN LET r == show_executive_summary(contacts, events, answers)
             IN  [calls |-> <<"show_executive_summary">>, view |-> r.view,
                  snapshot |-> r.args, rng |-> g]
        ELSE IF p = options[2]
        THEN LET r == show_business_questions(answers, g)
             IN  [calls |-> <<"show_business_questions">>, view |-> r.view,
                  snapshot |-> <<contacts, events, r.args[1]>>, rng |-> r.rng]
        ELSE IF p = options[3]
        THEN LET r == show_segmentation_metrics(contacts, events)
             IN  [calls |-> <<"show_segmentation_metrics">>, view |-> r.view,
                  snapshot |-> <<r.args[1], r.args[2], answers>>, rng |-> g]
        ELSE [calls |-> <<>>, view |-> NoView, snapshot |-> data, rng |-> g]

header == "Dashboard Ejecutivo - Doda Consulting"
footer == "Dashboard generado por Pipeline MLOps"

(* ------------------------------ behaviour ----------------------------- *)

Init ==
    /\ page = options[1]
    /\ started = FALSE
    /\ cache = <<>>
    /\ bodyRan = FALSE
    /\ callAge = -1
    /\ loaded = <<>>
    /\ snapshot = <<>>
    /\ calls = <<>>
    /\ screen = [header |-> "", body |-> NoView, footer |-> ""]
    /\ prev = [page |-> "none", args |-> <<>>, body |-> NoView]
    /\ rng \in 0..(RngMod - 1)

\* One run of the script with the selectbox at p.  The first run of a
\* session has the selectbox at its default, the first option.
Rerun(p) ==
    /\ started \/ p = options[1]
    /\ LET l == cached_load(cache)
           m == main(p, l.value, rng)
       IN  /\ page' = p
           /\ started' = TRUE
           /\ cache' = l.cache
           /\ bodyRan' = l.ran
           /\ callAge' = IF cache = <<>> THEN -1 ELSE cache[1].age
           /\ loaded' = l.value
           /\ snapshot' = m.snapshot
           /\ calls' = m.calls
           /\ screen' = [header |-> header, body |-> m.view, footer |-> footer]
           /\ prev' = [page |-> IF started THEN page ELSE "none",
                       args |-> snapshot, body |-> screen.body]
           /\ rng' = m.rng

\* Step seconds pass.  An entry that has reached ttl is expired and stays so
\* until it is replaced, so its age is not counted past ttl.
Elapse ==
    /\ cache # <<>>
    /\ cache[1].age < ttl
    /\ cache' = <<[cache[1] EXCEPT !.age = IF @ + Step >= ttl THEN ttl ELSE @ + Step]>>
    /\ UNCHANGED <<page, started, bodyRan, callAge, loaded, snapshot, calls,
                   screen, prev, rng>>

Next ==
    \/ \E p \in Range(options) : Rerun(p)
    \/ Elapse

Spec == Init /\ [][Next]_vars

(* ------------------------------ properties ---------------------------- *)

\* the keys of a dict that carry its largest value
ArgMax(d) == {d[i].k : i \in {j \in DOMAIN d : d[j].v = max(values(d))}}

\* the first key, in the dict's order, that carries its largest value
FirstArgMax(d) ==
    d[CHOOSE i \in DOMAIN d :
          /\ d[i].v = max(values(d))
          /\ \A j \in 1..(i - 1) : d[j].v < max(values(d))].k

HourDistribution == loaded[3].booking_patterns.hour_distribution
HoraPico == screen.body.metrics[4]

\* C1 as amended: the hour on the summary page's 'Hora Pico' card is a key
\* of hour_distribution that carries the largest count, namely the first
\* such key in the mapping's order.
C1_PeakHourIsFirstMaxKey ==
    screen.body.page = "summary" =>
        /\ HoraPico.label = "Hora Pico"
        /\ \E h \in ArgMax(HourDistribution) :
              /\ h = FirstArgMax(HourDistribution)
              /\ HoraPico.value = ToString(h) \o ":00"

\* C1 as stated: the hour on the 'Hora Pico' card is the unique argmax of
\* hour_distribution.
C1_PeakHourIsUniqueArgMax ==
    screen.body.page = "summary" =>
        \E h \in ArgMax(HourDistribution) :
            /\ ArgMax(HourDistribution) = {h}
            /\ HoraPico.value = ToString(h) \o ":00"

C1_Witness ==
    /\ screen.body.page = "summary"
    /\ HoraPico.value = "16:00"
    /\ {16, 19} \subseteq ArgMax(HourDistribution)

RenderFor(p) ==
    IF p = "Resumen Ejecutivo" THEN "show_executive_summary"
    ELSE IF p = "Preguntas de Negocio" THEN "show_business_questions"
    ELSE "show_segmentation_metrics"

ViewFor(p) ==
    IF p = "Resumen Ejecutivo" THEN "summary"
    ELSE IF p = "Preguntas de Negocio" THEN "questions"
    ELSE "segmentation"

\* C2: every run of main() calls exactly one page-render function, the one
\* of the option selected in that run, whatever was selected in the runs
\* before.
C2_ExactlyOneMatchingRender ==
    started =>
        /\ page \in Range(options)
        /\ Len(calls) = 1
        /\ calls[1] = RenderFor(page)
        /\ screen.body.page = ViewFor(page)

C2_Witness ==
    /\ started
    /\ prev.page = "Preguntas de Negocio"
    /\ page = "Segmentación & Métricas"
    /\ calls = <<"show_segmentation_metrics">>

\* C3: two renders of a page with the same arguments (the metrics snapshot;
\* a page takes no random source or seed besides it) give identical output.
C3_SameArgumentsSameOutput ==
    (started /\ prev.page = page /\ prev.args = snapshot) =>
        prev.body = screen.body

\* What does hold of two consecutive renders of one page: they agree on
\* everything but the filler points of Chart A.
RendersDifferOnlyInFiller ==
    (started /\ prev.page = page) =>
        IF page = "Preguntas de Negocio"
        THEN /\ [prev.body EXCEPT !.fig1 = 0] = [screen.body EXCEPT !.fig1 = 0]
             /\ [prev.body.fig1 EXCEPT !.y = 0] = [screen.body.fig1 EXCEPT !.y = 0]
             /\ \A d \in {2, 16} : prev.body.fig1.y[d] = screen.body.fig1.y[d]
        ELSE prev.body = screen.body

\* C4: the body of load_real_ghl_data runs exactly in the calls made with no
\* entry cached (cold start) or with an entry of age ttl or more; a call
\* made within the ttl window is served from the cache; and every call
\* returns the same triple.
C4_BodyRunsOnlyWhenColdOrExpired ==
    started =>
        /\ bodyRan <=> (callAge = -1 \/ callAge >= ttl)
        /\ loaded = load_real_ghl_data
        /\ cache # <<>> /\ cache[1].value = loaded

C4_Witness ==
    /\ started
    /\ prev.page # "none"
    /\ bodyRan
    /\ callAge >= ttl
    /\ cache[1].age = 0

\* C5: after any sequence of page renders the triple is the one the load
\* returned, which is the one load_real_ghl_data produces.
C5_RendersLeaveSnapshotUnchanged ==
    started =>
        /\ snapshot = loaded
        /\ snapshot = load_real_ghl_data
        /\ prev.page # "none" => prev.args = snapshot

C5_Witness ==
    /\ started
    /\ prev.page = "Resumen Ejecutivo"
    /\ page = "Preguntas de Negocio"
    /\ snapshot = load_real_ghl_data

\* C6: the donut chart's values, the segmentation proportions times 100,
\* sum to 100 within 0.1.
C6_SegmentationSumsTo100 ==
    screen.body.page = "segmentation" =>
        LET total == SumSeq(screen.body.fig_seg.values)
        IN  /\ total - 100000 <= 100
            /\ 100000 - total <= 100

C6_Witness ==
    /\ screen.body.page = "segmentation"
    /\ Len(screen.body.fig_seg.values) = 5
    /\ screen.body.fig_seg.values[1] = 45900
    /\ SumSeq(screen.body.fig_seg.values) = 100000

\* C7: the lead-time chart's x categories are the six buckets in the order
\* same day, 1-3 days, 4-7 days, 1-2 weeks, 2-4 weeks, more than a month,
\* paired position by position with 3.3, 4.7, 5.5, 10.1, 8.6, 0.0.
C7_LeadTimeOrderIsCanonical ==
    screen.body.page = "questions" =>
        /\ screen.body.fig2.x =
               <<"Mismo_Día", "1-3_Días", "4-7_Días", "1-2_Semanas",
                 "2-4_Semanas", "Más_1_Mes">>
        /\ screen.body.fig2.y = <<3300, 4700, 5500, 10100, 8600, 0>>

C7_Witness ==
    /\ screen.body.page = "questions"
    /\ Len(screen.body.fig2.x) = 6
    /\ screen.body.fig2.x[4] = "1-2_Semanas"
    /\ screen.body.fig2.y[4] = 10100

IdealWindow == screen.body.insights[2]

C8_Given ==
    /\ screen.body.page = "summary"
    /\ loaded[3].lead_time_analysis.optimal_window = "1-2_Semanas"
    /\ loaded[3].lead_time_analysis.optimal_rate = 101

\* C8 as amended: the 'Ventana de Reserva Ideal' insight carries "10.1%" in
\* its description and the window label "1-2_Semanas" in its value field,
\* not in its description; the rendered card contains both.
C8_CardHasRateAndWindow ==
    C8_Given =>
        /\ IdealWindow.title = "Ventana de Reserva Ideal"
        /\ Contains(IdealWindow.description, "10.1%")
        /\ IdealWindow.value = "1-2_Semanas"
        /\ ~ Contains(IdealWindow.description, "1-2_Semanas")
        /\ Contains(screen.body.cards[2], "10.1%")
        /\ Contains(screen.body.cards[2], "1-2_Semanas")

\* C8 as stated: the description field of the 'Ventana de Reserva Ideal'
\* insight contains both "10.1%" and the window label "1-2_Semanas".
C8_DescriptionHasRateAndWindow ==
    C8_Given =>
        /\ Contains(IdealWindow.description, "10.1%")
        /\ Contains(IdealWindow.description, "1-2_Semanas")

C8_Witness ==
    /\ C8_Given
    /\ IdealWindow.description = "10.1% asistencia vs 3.3% mismo día"

AttendanceRates == screen.body.fig1.y

\* C9: Chart A has one value per day 1..31, day 2 is 66.7, day 16 is 0.0,
\* and every other day lies in the range of its third of the month: days
\* 1-10 in [20,35], days 11-20 in [15,25], days 21-31 in [10,20].
C9_FillerWithinRanges ==
    screen.body.page = "questions" =>
        /\ screen.body.fig1.x = [d \in 1..31 |-> d]
        /\ Len(AttendanceRates) = 31
        /\ AttendanceRates[2] = 66700
        /\ AttendanceRates[16] = 0
        /\ \A d \in (1..31) \ {2, 16} :
              IF d <= 10 THEN AttendanceRates[d] >= 20000 /\ AttendanceRates[d] <= 35000
              ELSE IF d <= 20 THEN AttendanceRates[d] >= 15000 /\ AttendanceRates[d] <= 25000
              ELSE AttendanceRates[d] >= 10000 /\ AttendanceRates[d] <= 20000

C9_Witness ==
    /\ screen.body.page = "questions"
    /\ \E d \in (1..10) \ {2} : AttendanceRates[d] > 34000
    /\ \E d \in 21..31 : AttendanceRates[d] = 10000

\* C10: in Chart A the only largest value is at mejor_dia and is mejor_tasa
\* as a percentage, the only smallest value is at peor_dia and is peor_tasa
\* as a percentage, and the annotation sits at that largest value times 1.1.
C10_ExtremesMatchSnapshot ==
    screen.body.page = "questions" =>
        LET a == loaded[3].attendance_by_day
        IN  /\ AttendanceRates[a.mejor_dia] = a.mejor_tasa * 100
            /\ \A d \in (1..31) \ {a.mejor_dia} :
                  AttendanceRates[d] < AttendanceRates[a.mejor_dia]
            /\ AttendanceRates[a.peor_dia] = a.peor_tasa * 100
            /\ \A d \in (1..31) \ {a.peor_dia} :
                  AttendanceRates[d] > AttendanceRates[a.peor_dia]
            /\ screen.body.fig1.annotation.y = (a.mejor_tasa * 100 * 11) \div 10

C10_Witness ==
    /\ screen.body.page = "questions"
    /\ prev.page = "Preguntas de Negocio"
    /\ prev.body.fig1.y # AttendanceRates
    /\ prev.body.fig1.annotation.y = 73370
    /\ screen.body.fig1.annotation.y = 73370

====
